---- MODULE Spec2Model ----
(***************************************************************************)
(* The air-crash dashboard script (src/app.py) as a state machine.         *)
(*                                                                         *)
(* One run of the script is one pass: load_data (memoised by               *)
(* st.cache_data), the sidebar widgets, the filters, the key metrics, the  *)
(* data preview and the three chart tabs.  Every widget interaction        *)
(* re-runs the script from the top.                                        *)
(*                                                                         *)
(* A data frame is [cols, rows]: the set of its column names and the       *)
(* sequence of its rows.  A row carries its pandas index label (Index),    *)
(* which read_csv assigns (0, 1, 2, ...) and which dropna and boolean      *)
(* masks keep.  A cell of a column the frame does not have is never read.  *)
(***************************************************************************)
EXTENDS Integers, Sequences, FiniteSets, TLC

VARIABLES
    csv,               \* the file data/aircrahesFull_2024.csv as read_csv returns it
    track,             \* history switch: whether first_view is recorded in this behaviour
    cache,             \* st.cache_data's memo of load_data: <<>> or <<frame>>
    df,                \* the script's df
    error_shown,       \* st.error(...) was issued by load_data in this pass
    pc,                \* the script's position
    selected_year,     \* <<low, high>> from the select_slider
    selected_country,
    selected_airline,
    filtered_df,
    metrics,           \* <<total crashes, total fatalities, countries, airlines>>
    yearly,            \* tab1: df.groupby('Year').size()
    top_countries,     \* tab2
    pairs,             \* tab3: the x and y columns handed to regplot
    monthly,           \* tab3: df.groupby('Month').size()
    first_view         \* history: <<>> or <<[sel, view, between]>>, the first filter application

vars == <<csv, track, cache, df, error_shown, pc, selected_year, selected_country,
          selected_airline, filtered_df, metrics, yearly, top_countries, pairs,
          monthly, first_view>>

(***************************************************************************)
(* Missing values.                                                         *)
(***************************************************************************)
\* NaN in a numeric column (Year, Day, fatalities, the mapped Month)
NaN == -1

\* NaN in a text column (Month as read, Country/Region, Operator)
NaNStr == "NaN"

\* pandas' NaT; a date is <<year, month, day>>
NaT == <<>>

\* A frame with no columns: the value of a script variable not yet assigned
NoFrame == [cols |-> {}, rows |-> <<>>]

(***************************************************************************)
(* Bounds of the model.                                                    *)
(***************************************************************************)
\* rows of the csv file
MaxRows == 3

\* rows of the csv file in the behaviours that record first_view
MaxRowsTracked == 2

(***************************************************************************)
(* Sequence helpers.                                                       *)
(***************************************************************************)
MapSeq(s, F(_)) == [i \in 1..Len(s) |-> F(s[i])]

MinOf(S) == CHOOSE x \in S : \A y \in S : x <= y

RECURSIVE Ascending(_)
Ascending(S) == IF S = {} THEN <<>> ELSE <<MinOf(S)>> \o Ascending(S \ {MinOf(S)})

RECURSIVE SumSeq(_)
SumSeq(s) == IF s = <<>> THEN 0 ELSE Head(s) + SumSeq(Tail(s))

(***************************************************************************)
(* load_data                                                               *)
(***************************************************************************)
RequiredColumns == {"Year", "Month", "Day"}

OtherColumns == {"Country/Region", "Operator", "Aircraft Manufacturer", "Fatalities (air)", "Ground"}

HasRequired(d) == \A col \in RequiredColumns : col \in d.cols

month_map ==
    [January |-> 1, February |-> 2, March |-> 3, April |-> 4, May |-> 5, June |-> 6,
     July |-> 7, August |-> 8, September |-> 9, October |-> 10, November |-> 11,
     December |-> 12]

\* Series.map(dict): a value that is not a key of the dict becomes NaN
MapMonth(m) == IF m \in DOMAIN month_map THEN month_map[m] ELSE NaN

MapMonthColumn(rows) == MapSeq(rows, LAMBDA r : [r EXCEPT !.Month = MapMonth(@)])

FillNaDay_Skipped(rows) == rows

\* df['Day'].fillna(1, inplace=True): the Day column of df itself is filled
\* (the chained in-place fill acts on df's own column in pandas 2)
FillNaDay(rows) == MapSeq(rows, LAMBDA r : [r EXCEPT !.Day = IF @ = NaN THEN 1 ELSE @])

IsLeap(y) == (y % 4 = 0 /\ y % 100 # 0) \/ y % 400 = 0

DaysInMonth(y, m) ==
    IF m = 2 THEN (IF IsLeap(y) THEN 29 ELSE 28)
    ELSE IF m \in {4, 6, 9, 11} THEN 30 ELSE 31

\* pd.to_datetime of one (year, month, day) row with errors='coerce': the date
\* when the three make one, NaT when one is missing or they make none
ToDatetime(y, m, d) ==
    IF y = NaN \/ m = NaN \/ d = NaN THEN NaT
    ELSE IF m \in 1..12 /\ d >= 1 /\ d <= DaysInMonth(y, m) THEN <<y, m, d>>
    ELSE NaT

AssignDate(rows) ==
    MapSeq(rows, LAMBDA r : [r EXCEPT !.Date = ToDatetime(r.Year, r.Month, r.Day)])

DropNaDate_KeepAll(rows) == rows

DropNaDate_AllOrNothing(rows) ==
    IF \E i \in 1..Len(rows) : rows[i].Date = NaT THEN <<>> ELSE rows

\* df.dropna(subset=['Date'])
DropNaDate(rows) == SelectSeq(rows, LAMBDA r : r.Date # NaT)

\* .dt.year and .dt.month (NaN of NaT)
DtYear(date) == IF date = NaT THEN NaN ELSE date[1]

DtMonth(date) == IF date = NaT THEN NaN ELSE date[2]

DeriveYearMonth(rows) ==
    MapSeq(rows, LAMBDA r : [r EXCEPT !.Year = DtYear(r.Date), !.Month = DtMonth(r.Date)])

load_data(raw) ==
    IF HasRequired(raw)
    THEN [cols |-> raw.cols \cup {"Date"},
          rows |-> DeriveYearMonth(DropNaDate(AssignDate(FillNaDay(MapMonthColumn(raw.rows)))))]
    ELSE raw

(***************************************************************************)
(* The csv files of the model.  A file is a sequence of at most MaxRows     *)
(* records; its cells are drawn either from DateCells (the ways a          *)
(* Year/Month/Day triple can go right or wrong) or from AttrCells (valid   *)
(* dates, varied year, country, operator and fatalities).                  *)
(***************************************************************************)
Cells(y, m, d, c, o, a, g) ==
    [Index |-> 0, Year |-> y, Month |-> m, Day |-> d, Date |-> NaT,
     Country |-> c, Operator |-> o, Air |-> a, Ground |-> g]

DateCells ==
    { Cells(t[1], t[2], t[3], "A", "X", 1, 0) :
        t \in { <<2019, "January", 31>>,      \* a valid date
                <<2020, "February", 29>>,     \* valid in a leap year
                <<2019, "February", 29>>,     \* not a date
                <<2020, "February", 30>>,     \* not a date
                <<2020, "February", NaN>>,    \* Day missing
                <<2019, "2", 1>>,             \* Month already a number (the cell's text)
                <<NaN, "January", 1>> } }     \* Year missing

AttrCells ==
    { Cells(t[1], "January", 1, t[2], t[3], t[4], t[5]) :
        t \in { <<2019, "A", "X", 1, 0>>,
                <<2020, "A", NaNStr, 2, 1>>,
                <<2020, "B", "X", NaN, 0>>,
                <<2019, "B", "Y", 3, NaN>>,
                <<2020, NaNStr, "X", 1, 1>>,
                <<2021, "B", "X", 0, 0>> } }

Tables(cells, n) == UNION { [1..k -> cells] : k \in 0..n }

\* A cell of a column the file does not have is blank
Blank(r, present) ==
    [r EXCEPT !.Year = IF "Year" \in present THEN @ ELSE NaN,
              !.Month = IF "Month" \in present THEN @ ELSE NaNStr,
              !.Day = IF "Day" \in present THEN @ ELSE NaN]

\* pd.read_csv: the columns of the file, the rows labelled 0, 1, 2, ...
ReadCsv(t, present) ==
    [cols |-> present \cup OtherColumns,
     rows |-> [i \in 1..Len(t) |-> [Blank(t[i], present) EXCEPT !.Index = i - 1]]]

\* All of Year, Month and Day, or all but one of them
ColumnVariants == {RequiredColumns} \cup {RequiredColumns \ {col} : col \in RequiredColumns}

CsvFiles(n) ==
    { ReadCsv(t, present) :
        t \in Tables(DateCells, n) \cup Tables(AttrCells, n), present \in ColumnVariants }

(***************************************************************************)
(* The sidebar's options.                                                  *)
(***************************************************************************)
\* df['Year'].unique(), the years a range can be picked from
YearOptions(d) == {d.rows[i].Year : i \in 1..Len(d.rows)} \ {NaN}

\* ["All"] + sorted(df[...].dropna().unique().tolist())
CountryOptions(d) == {"All"} \cup ({d.rows[i].Country : i \in 1..Len(d.rows)} \ {NaNStr})

AirlineOptions(d) == {"All"} \cup ({d.rows[i].Operator : i \in 1..Len(d.rows)} \ {NaNStr})

(***************************************************************************)
(* The filters.                                                            *)
(***************************************************************************)
FilterYear_Exclusive(d, year) ==
    [d EXCEPT !.rows = SelectSeq(d.rows, LAMBDA r : r.Year # NaN /\ r.Year > year[1] /\ r.Year < year[2])]

\* df[(df['Year'] >= selected_year[0]) & (df['Year'] <= selected_year[1])]
FilterYear(d, year) ==
    [d EXCEPT !.rows = SelectSeq(d.rows, LAMBDA r : r.Year # NaN /\ r.Year >= year[1] /\ r.Year <= year[2])]

FilterCountry(d, country) ==
    IF country # "All"
    THEN [d EXCEPT !.rows = SelectSeq(d.rows, LAMBDA r : r.Country = country)]
    ELSE d

FilterAirline(d, airline) ==
    IF airline # "All"
    THEN [d EXCEPT !.rows = SelectSeq(d.rows, LAMBDA r : r.Operator = airline)]
    ELSE d

ApplyFilter(d, year, country, airline) ==
    FilterAirline(FilterCountry(FilterYear(d, year), country), airline)

(***************************************************************************)
(* The aggregates.                                                         *)
(***************************************************************************)
\* Series.sum(): NaN is skipped
SumAir(rows) == SumSeq(MapSeq(rows, LAMBDA r : IF r.Air = NaN THEN 0 ELSE r.Air))

\* Series.nunique(): NaN is not counted
NUniqueCountry(rows) == Cardinality({rows[i].Country : i \in 1..Len(rows)} \ {NaNStr})

NUniqueOperator(rows) == Cardinality({rows[i].Operator : i \in 1..Len(rows)} \ {NaNStr})

KeyMetrics(d) ==
    <<Len(d.rows), SumAir(d.rows), NUniqueCountry(d.rows), NUniqueOperator(d.rows)>>

\* groupby('Year').size(): one <<year, count>> per year present, ascending; NaN keys dropped
GroupByYearSize(rows) ==
    MapSeq(Ascending({rows[i].Year : i \in 1..Len(rows)} \ {NaN}),
           LAMBDA y : <<y, Cardinality({i \in 1..Len(rows) : rows[i].Year = y})>>)

\* groupby('Month').size(): one <<month, count>> per month present, ascending
GroupByMonthSize(rows) ==
    MapSeq(Ascending({rows[i].Month : i \in 1..Len(rows)} \ {NaN}),
           LAMBDA m : <<m, Cardinality({i \in 1..Len(rows) : rows[i].Month = m})>>)

\* The two columns regplot is given
FatalityColumns(rows) == MapSeq(rows, LAMBDA r : <<r.Air, r.Ground>>)

CountryCount(rows, c) == Cardinality({i \in 1..Len(rows) : rows[i].Country = c})

\* value_counts() drops NaN
CountedCountries(rows) == {rows[i].Country : i \in 1..Len(rows)} \ {NaNStr}

IsDescending_Ascending(rows, s) ==
    \A i, j \in 1..Len(s) : i < j => CountryCount(rows, s[i]) <= CountryCount(rows, s[j])

IsDescending(rows, s) ==
    \A i, j \in 1..Len(s) : i < j => CountryCount(rows, s[i]) >= CountryCount(rows, s[j])

\* value_counts() sorts by count, descending, with sort_values' default
\* quicksort, which is not a stable sort: the order among countries of equal
\* count is not determined by the script.  These are all the orders it can give.
ValueCountsOrders(rows) ==
    LET keys == CountedCountries(rows)
        n == Cardinality(keys)
    IN { s \in [1..n -> keys] :
           /\ \A i, j \in 1..n : i # j => s[i] # s[j]
           /\ IsDescending(rows, s) }

\* .head(n)
HeadRows(s, n) == IF Len(s) <= n THEN s ELSE SubSeq(s, 1, n)

\* the n of .head(10)
TopN == 10

ValueCountsHead(rows, s) == HeadRows(MapSeq(s, LAMBDA c : <<c, CountryCount(rows, c)>>), TopN)

(***************************************************************************)
(* The script, one action per step.                                        *)
(***************************************************************************)
InitWith(files, tracked) ==
    /\ csv \in files
    /\ track = tracked
    /\ cache = <<>>
    /\ df = NoFrame
    /\ error_shown = FALSE
    /\ pc = "load"
    /\ selected_year = <<>>
    /\ selected_country = "All"
    /\ selected_airline = "All"
    /\ filtered_df = NoFrame
    /\ metrics = <<>>
    /\ yearly = <<>>
    /\ top_countries = <<>>
    /\ pairs = <<>>
    /\ monthly = <<>>
    /\ first_view = <<>>

Init == InitWith(CsvFiles(MaxRows), FALSE)

InitTracked == InitWith(CsvFiles(MaxRowsTracked), TRUE)

\* df = load_data(): the body runs on the first call, the memo answers the later
\* ones (and replays the body's st.error)
LoadData ==
    /\ pc = "load"
    /\ df' = IF cache = <<>> THEN load_data(csv) ELSE cache[1]
    /\ cache' = <<df'>>
    /\ error_shown' = ~HasRequired(csv)
    /\ pc' = "sidebar"
    /\ UNCHANGED <<csv, track, selected_year, selected_country, selected_airline,
                   filtered_df, metrics, yearly, top_countries, pairs, monthly, first_view>>

\* The three widgets.  df['Year'] raises KeyError without the column, and
\* int(df['Year'].max()) raises ValueError when no row has a year; otherwise
\* the widgets return what the user has set them to: any range low <= high of
\* the years present (the slider's initial value is left to the widget), any
\* country and any airline of the options.
Sidebar ==
    /\ pc = "sidebar"
    /\ IF "Year" \notin df.cols \/ YearOptions(df) = {}
       THEN /\ pc' = "crashed"
            /\ UNCHANGED <<selected_year, selected_country, selected_airline>>
       ELSE /\ \E low \in YearOptions(df), high \in YearOptions(df) :
                 /\ low <= high
                 /\ selected_year' = <<low, high>>
            /\ selected_country' \in CountryOptions(df)
            /\ selected_airline' \in AirlineOptions(df)
            /\ pc' = "filter"
    /\ UNCHANGED <<csv, track, cache, df, error_shown, filtered_df, metrics, yearly,
                   top_countries, pairs, monthly, first_view>>

Selection == [year |-> selected_year, country |-> selected_country, airline |-> selected_airline]

\* The history of the filter: the selection and the view of its first application,
\* and whether a different selection has been applied since
FirstView(view) ==
    IF ~track THEN first_view
    ELSE IF first_view = <<>> THEN <<[sel |-> Selection, view |-> view, between |-> FALSE]>>
    ELSE IF first_view[1].sel # Selection THEN <<[first_view[1] EXCEPT !.between = TRUE]>>
    ELSE first_view

ApplyFilters_InPlace ==
    /\ pc = "filter"
    /\ filtered_df' = ApplyFilter(df, selected_year, selected_country, selected_airline)
    /\ df' = filtered_df'
    /\ cache' = <<filtered_df'>>
    /\ first_view' = FirstView(filtered_df')
    /\ pc' = "metrics"
    /\ UNCHANGED <<csv, track, error_shown, selected_year, selected_country,
                   selected_airline, metrics, yearly, top_countries, pairs, monthly>>

\* filtered_df = df[...], then narrowed by country and by airline
ApplyFilters ==
    /\ pc = "filter"
    /\ filtered_df' = ApplyFilter(df, selected_year, selected_country, selected_airline)
    /\ first_view' = FirstView(filtered_df')
    /\ pc' = "metrics"
    /\ UNCHANGED <<csv, track, cache, df, error_shown, selected_year, selected_country,
                   selected_airline, metrics, yearly, top_countries, pairs, monthly>>

\* The four metric cards
Metrics ==
    /\ pc = "metrics"
    /\ metrics' = KeyMetrics(filtered_df)
    /\ pc' = "preview"
    /\ UNCHANGED <<csv, track, cache, df, error_shown, selected_year, selected_country,
                   selected_airline, filtered_df, yearly, top_countries, pairs, monthly,
                   first_view>>

\* filtered_df[['Date', ...]] raises KeyError when load_data added no Date column
DataPreview ==
    /\ pc = "preview"
    /\ pc' = IF "Date" \in filtered_df.cols THEN "tab1" ELSE "crashed"
    /\ UNCHANGED <<csv, track, cache, df, error_shown, selected_year, selected_country,
                   selected_airline, filtered_df, metrics, yearly, top_countries, pairs,
                   monthly, first_view>>

Tab1 ==
    /\ pc = "tab1"
    /\ yearly' = GroupByYearSize(df.rows)
    /\ pc' = "tab2"
    /\ UNCHANGED <<csv, track, cache, df, error_shown, selected_year, selected_country,
                   selected_airline, filtered_df, metrics, top_countries, pairs, monthly,
                   first_view>>

Tab2 ==
    /\ pc = "tab2"
    /\ \E s \in ValueCountsOrders(df.rows) : top_countries' = ValueCountsHead(df.rows, s)
    /\ pc' = "tab3"
    /\ UNCHANGED <<csv, track, cache, df, error_shown, selected_year, selected_country,
                   selected_airline, filtered_df, metrics, yearly, pairs, monthly,
                   first_view>>

Tab3 ==
    /\ pc = "tab3"
    /\ pairs' = FatalityColumns(df.rows)
    /\ monthly' = GroupByMonthSize(df.rows)
    /\ pc' = "done"
    /\ UNCHANGED <<csv, track, cache, df, error_shown, selected_year, selected_country,
                   selected_airline, filtered_df, metrics, yearly, top_countries,
                   first_view>>

\* A widget interaction (or a manual rerun): the script starts over; the memo stays
Rerun ==
    /\ pc \in {"done", "crashed"}
    /\ pc' = "load"
    /\ df' = NoFrame
    /\ error_shown' = FALSE
    /\ selected_year' = <<>>
    /\ selected_country' = "All"
    /\ selected_airline' = "All"
    /\ filtered_df' = NoFrame
    /\ metrics' = <<>>
    /\ yearly' = <<>>
    /\ top_countries' = <<>>
    /\ pairs' = <<>>
    /\ monthly' = <<>>
    /\ UNCHANGED <<csv, track, cache, first_view>>

Next ==
    \/ LoadData
    \/ Sidebar
    \/ ApplyFilters
    \/ Metrics
    \/ DataPreview
    \/ Tab1
    \/ Tab2
    \/ Tab3
    \/ Rerun

Spec == Init /\ [][Next]_vars

SpecTracked == InitTracked /\ [][Next]_vars

(***************************************************************************)
(* The properties.                                                         *)
(***************************************************************************)
\* load_data has returned in this pass
Loaded == pc # "load"

\* ... and the file had Year, Month and Day
LoadedDataset == Loaded /\ HasRequired(csv)

\* The filter has been applied in this pass
Filtered == filtered_df # NoFrame

\* The calendar, stated on its own: the lengths of the twelve months
MonthLengths(y) ==
    <<31, IF y % 4 = 0 /\ (y % 100 # 0 \/ y % 400 = 0) THEN 29 ELSE 28, 31, 30, 31, 30,
      31, 31, 30, 31, 30, 31>>

IsCalendarDate(y, m, d) ==
    /\ y # NaN
    /\ m \in 1..12
    /\ d \in 1..MonthLengths(y)[m]

\* The number of a full English month name (0 for anything else)
MonthNames ==
    <<"January", "February", "March", "April", "May", "June", "July", "August",
      "September", "October", "November", "December">>

MonthNumber(m) ==
    IF \E k \in 1..12 : MonthNames[k] = m THEN CHOOSE k \in 1..12 : MonthNames[k] = m ELSE 0

\* The integer a month cell that is a numeral 1..12 stands for (0 for anything else)
MonthNumerals == <<"1", "2", "3", "4", "5", "6", "7", "8", "9", "10", "11", "12">>

NumeralMonth(m) ==
    IF \E k \in 1..12 : MonthNumerals[k] = m THEN CHOOSE k \in 1..12 : MonthNumerals[k] = m ELSE 0

\* The day of a raw record under the default-day policy
DayOrFirst(d) == IF d = NaN THEN 1 ELSE d

\* The index labels of a frame's rows, in row order
Labels(d) == MapSeq(d.rows, LAMBDA r : r.Index)

\* The row of frame d labelled l is retained with date dt
RetainedAs(d, l, dt) == \E j \in 1..Len(d.rows) : d.rows[j].Index = l /\ d.rows[j].Date = dt

(* C1: a file lacking one of Year, Month, Day yields no Dataset and halts the
   script at the load: no filter step and no aggregate step runs on it. *)
C1_MissingColumnHaltsAtLoad ==
    ~HasRequired(csv) =>
        /\ filtered_df = NoFrame
        /\ metrics = <<>>
        /\ yearly = <<>> /\ top_countries = <<>> /\ monthly = <<>> /\ pairs = <<>>

(* C2: after a successful load every retained record has a date, and its Year
   and Month are the year and month of that date. *)
C2_RetainedRecordsHaveTheirDate ==
    LoadedDataset =>
        \A i \in 1..Len(df.rows) :
            /\ df.rows[i].Date # NaT
            /\ df.rows[i].Year = df.rows[i].Date[1]
            /\ df.rows[i].Month = df.rows[i].Date[2]

\* C2's case: a load that retained some records and dropped others
C2_Witness ==
    /\ LoadedDataset
    /\ Len(df.rows) >= 1
    /\ Len(df.rows) < Len(csv.rows)

(* C3: a record whose Month is already an integer 1-12, with a valid Year and a
   Day that makes a date with it, is retained and its month is that integer. *)
C3_NumericMonthPassesThrough ==
    LoadedDataset =>
        \A i \in 1..Len(csv.rows) :
            LET r == csv.rows[i]
                m == NumeralMonth(r.Month)
            IN  (m # 0 /\ IsCalendarDate(r.Year, m, DayOrFirst(r.Day))) =>
                    \E j \in 1..Len(df.rows) :
                        df.rows[j].Index = r.Index /\ df.rows[j].Month = m

(* C4: a record with Day missing and a valid Year and Month (a full English
   month name) is retained, dated the first of that month of that year. *)
C4_MissingDayDefaultsToFirst ==
    LoadedDataset =>
        \A i \in 1..Len(csv.rows) :
            LET r == csv.rows[i]
            IN  (r.Day = NaN /\ r.Year # NaN /\ MonthNumber(r.Month) # 0) =>
                    RetainedAs(df, r.Index, <<r.Year, MonthNumber(r.Month), 1>>)

\* C4's case: such a record was loaded
C4_Witness ==
    /\ LoadedDataset
    /\ \E i \in 1..Len(csv.rows) :
           /\ csv.rows[i].Day = NaN
           /\ csv.rows[i].Year # NaN
           /\ MonthNumber(csv.rows[i].Month) # 0
           /\ RetainedAs(df, csv.rows[i].Index, <<csv.rows[i].Year, MonthNumber(csv.rows[i].Month), 1>>)

\* The labels of the raw records whose year, month name and day make a calendar date
ValidLabels ==
    { csv.rows[i].Index : i \in { k \in 1..Len(csv.rows) :
        IsCalendarDate(csv.rows[k].Year, MonthNumber(csv.rows[k].Month),
                       DayOrFirst(csv.rows[k].Day)) } }

(* C5: date construction fails per record: the Dataset holds exactly the
   records whose (year, month, day) is a calendar date, in their original
   order; a record that is not a date (February 30) is excluded and removes
   no other record. *)
C5_BadDateDropsOnlyItsRecord ==
    LoadedDataset => Labels(df) = Ascending(ValidLabels)

\* C5's case: a February 30 between two valid records, both retained
C5_Witness ==
    /\ LoadedDataset
    /\ Len(csv.rows) = 3
    /\ csv.rows[2].Month = "February" /\ csv.rows[2].Day = 30
    /\ Labels(df) = <<0, 2>>
    /\ df.rows[1] # df.rows[2]

\* The claim's predicate of a selection, on one record
Matches(r) ==
    /\ selected_year[1] <= r.Year /\ r.Year <= selected_year[2]
    /\ selected_country = "All" \/ r.Country = selected_country
    /\ selected_airline = "All" \/ r.Operator = selected_airline

MatchingPositions == { i \in 1..Len(df.rows) : Matches(df.rows[i]) }

(* C6: the filter returns exactly the records of df within the year range that
   have the selected country (unless it is "All") and the selected operator
   (unless it is "All"), in df's order; its length is the full-scan count. *)
C6_FilterReturnsExactlyTheMatches ==
    Filtered =>
        /\ filtered_df.rows = MapSeq(Ascending(MatchingPositions), LAMBDA i : df.rows[i])
        /\ Len(filtered_df.rows) = Cardinality(MatchingPositions)

\* C6's case: a country is selected, two records match and another does not
C6_Witness ==
    /\ Filtered
    /\ selected_country # "All"
    /\ Len(filtered_df.rows) >= 2
    /\ Len(filtered_df.rows) < Len(df.rows)
    /\ filtered_df.rows[1] # filtered_df.rows[2]

(* C7: the monthly counts are always twelve (month, count) entries, keys 1..12
   in ascending order, a month without records counted 0. *)
C7_MonthlyCountsAreDense ==
    pc = "done" =>
        /\ Len(monthly) = 12
        /\ \A m \in 1..Len(monthly) : monthly[m][1] = m

\* The position in df of the first record of country c
FirstSeen(c) == MinOf({ i \in 1..Len(df.rows) : df.rows[i].Country = c })

\* tab2 has run in this pass
Tab2Done == pc \in {"tab3", "done"}

(* C8, as claimed: at most N (country, count) pairs, count descending, no null
   country, and of two countries with the same count the first encountered
   comes first. *)
C8_TiesInFirstEncounteredOrder ==
    Tab2Done =>
        /\ Len(top_countries) <= TopN
        /\ \A i \in 1..Len(top_countries) : top_countries[i][1] # NaNStr
        /\ \A i, j \in 1..Len(top_countries) :
               i < j => \/ top_countries[i][2] > top_countries[j][2]
                        \/ /\ top_countries[i][2] = top_countries[j][2]
                           /\ FirstSeen(top_countries[i][1]) < FirstSeen(top_countries[j][1])

(* C8, amended: at most N (country, count) pairs, one per non-null country and
   the N most frequent of them, each with its number of records, count
   descending; the order of countries with the same count is not determined. *)
C8_TopCountriesDescending ==
    Tab2Done =>
        LET keys == { top_countries[i][1] : i \in 1..Len(top_countries) }
            all == { df.rows[i].Country : i \in 1..Len(df.rows) } \ {NaNStr}
        IN  /\ Len(top_countries) <= TopN
            /\ Cardinality(keys) = Len(top_countries)
            /\ keys \subseteq all
            /\ Len(top_countries) = IF Cardinality(all) <= TopN THEN Cardinality(all) ELSE TopN
            /\ \A i \in 1..Len(top_countries) :
                   top_countries[i][2] =
                       Cardinality({ k \in 1..Len(df.rows) : df.rows[k].Country = top_countries[i][1] })
            /\ \A i, j \in 1..Len(top_countries) :
                   i < j => top_countries[i][2] >= top_countries[j][2]
            /\ \A c \in all \ keys : \A i \in 1..Len(top_countries) :
                   top_countries[i][2] >= Cardinality({ k \in 1..Len(df.rows) : df.rows[k].Country = c })

\* C8's case: two countries of different counts, the more frequent one encountered later
C8_Witness ==
    /\ Tab2Done
    /\ Len(top_countries) = 2
    /\ top_countries[1][2] > top_countries[2][2]
    /\ FirstSeen(top_countries[2][1]) < FirstSeen(top_countries[1][1])

(* C9: after one load, an application of the filter with the selection of the
   first application yields the view of the first application, whatever was
   selected in between. *)
C9_SameSelectionSameView ==
    (Filtered /\ first_view # <<>> /\ first_view[1].sel = Selection) =>
        filtered_df = first_view[1].view

\* C9's case: the first selection applied again after a different one, on a view with records
C9_Witness ==
    /\ Filtered
    /\ first_view # <<>>
    /\ first_view[1].between
    /\ first_view[1].sel = Selection
    /\ Len(filtered_df.rows) >= 1
    /\ Len(filtered_df.rows) < Len(df.rows)

(* C10: the yearly counts, top countries, monthly counts and fatality pairs of
   a pass are those of the pass's filtered view. *)
C10_AggregatesOfTheFilteredView ==
    pc = "done" =>
        /\ yearly = GroupByYearSize(filtered_df.rows)
        /\ top_countries \in { ValueCountsHead(filtered_df.rows, s) :
                                 s \in ValueCountsOrders(filtered_df.rows) }
        /\ monthly = GroupByMonthSize(filtered_df.rows)
        /\ pairs = FatalityColumns(filtered_df.rows)

====
